---- MODULE Spec2Model ----
(***************************************************************************)
(* The todo lifecycle service (app/todo_service.py) over the todo_items    *)
(* table (app/models.py).  Every service function opens one session, acts  *)
(* and commits.  In Spec and SpecRead the calls come one after the other,  *)
(* so each function is one atomic action on the table; in SpecRace several *)
(* callers run update_todo and toggle_todo_completion at once, each call   *)
(* a read step and a commit step.                                          *)
(*                                                                         *)
(* Optional[...] values are sequences of length at most one: None is <<>>  *)
(* and a present value x is <<x>>.  Timestamps are readings of a clock     *)
(* that never runs backwards but need not advance between two calls.       *)
(* completion_rate is kept in tenths of a percent (66.7 is 667).           *)
(***************************************************************************)
EXTENDS Integers, Sequences, FiniteSets, TLC

\* Bounds of the model.
MaxCreates == 2   \* create_todo calls in one session of Spec
MaxTime == 1      \* the last clock reading of Spec
MaxRows == 3      \* items created before a session of SpecRead starts
MaxStamp == 2     \* the last clock reading of SpecRead
MaxCallers == 2   \* callers of SpecRace, each making one call

Descriptions == {"a", "b"}
Ids == 1..MaxCreates

None == <<>>
Some(x) == <<x>>

VARIABLES
    todo_items,  \* the rows of table todo_items
    next_id,     \* the primary-key sequence of the storage backend
    clock,       \* what datetime.utcnow() returns now
    call,        \* the service call that has just run, op "none" between calls
    ret,         \* what that call returned
    issued,      \* history: the ids returned by create_todo, in call order
    mutated,     \* history: stored ids on which an update or toggle succeeded
    gone,        \* history: ids deleted since the last create_todo
    last_toggle, \* history: the latest successful toggle still undisturbed
    sessions,    \* SpecRace: per caller, the session of its call in progress
    commits      \* SpecRace history: the commits, in the order they happened

vars == <<todo_items, next_id, clock, call, ret, issued, mutated, gone, last_toggle,
          sessions, commits>>

NoCall == [op |-> "none", id |-> 0, data |-> None]

Callers == 1..MaxCallers
NoSessions == [c \in Callers |-> None]

----------------------------------------------------------------------------
\* app/models.py

\* TodoItem with updated_at defaulting to the time of construction.
TodoItem_stamped(description, now) ==
    [id |-> None, description |-> description, completed |-> FALSE,
     created_at |-> now, updated_at |-> Some(now)]

\* TodoItem(description=...): the field defaults of the table model.
TodoItem(description, now) ==
    [id |-> None, description |-> description, completed |-> FALSE,
     created_at |-> now, updated_at |-> None]

\* TodoItemCreate(description=...)
TodoItemCreate(description) == [description |-> description]

\* TodoItemUpdate(description=..., completed=...): both fields default to None.
TodoItemUpdate(description, completed) ==
    [description |-> description, completed |-> completed]

UpdateRequests ==
    {TodoItemUpdate(d, c) : d \in {None} \cup {Some(x) : x \in Descriptions},
                            c \in {None, Some(TRUE), Some(FALSE)}}

----------------------------------------------------------------------------
\* The storage session.

utcnow == clock

\* A backend that numbers a new row one past the largest id stored.
generated_id_reused ==
    LET used == {r.id[1] : r \in todo_items}
    IN IF used = {} THEN 1 ELSE (CHOOSE m \in used : \A k \in used : k <= m) + 1

\* The id the backend generates for an inserted row: the next value of the
\* table's key sequence, which never hands a value out twice.
generated_id == next_id

\* session.add(todo); session.commit(); session.refresh(todo) of a new object.
session_insert(todo) == [todo EXCEPT !.id = Some(generated_id)]

\* A lookup that falls back to some stored row when the key matches none.
session_get_first(todo_id) ==
    IF \E r \in todo_items : r.id = Some(todo_id)
    THEN Some(CHOOSE r \in todo_items : r.id = Some(todo_id))
    ELSE IF todo_items # {} THEN Some(CHOOSE r \in todo_items : TRUE) ELSE None

\* session.get(TodoItem, todo_id): the row with that primary key, or None.
session_get(todo_id) ==
    IF \E r \in todo_items : r.id = Some(todo_id)
    THEN Some(CHOOSE r \in todo_items : r.id = Some(todo_id))
    ELSE None

\* session.add(todo); session.commit() of a loaded, changed object.
session_update(old, new) == (todo_items \ {old}) \cup {new}

\* session.add(todo); session.commit() writing every column of the object.
session_flush_whole_row(row, loaded, todo) == todo

\* session.add(todo); session.commit() of an object another commit may have
\* overtaken since it was loaded: the UPDATE sets the columns whose value the
\* call changed from the loaded one, and leaves the others as the table has
\* them.
session_flush(row, loaded, todo) ==
    [f \in DOMAIN row |-> IF todo[f] # loaded[f] THEN todo[f] ELSE row[f]]

\* session.delete(todo) with the commit left out.
session_delete_uncommitted(todo) == todo_items

\* session.delete(todo); session.commit()
session_delete(todo) == todo_items \ {todo}

\* order_by(TodoItem.created_at) without desc.
order_by_asc_created_at(rows) ==
    LET n == Cardinality(rows)
    IN {s \in [1..n -> rows] :
          /\ \A i, j \in 1..n : i # j => s[i] # s[j]
          /\ \A i, j \in 1..n : i < j => s[i].created_at <= s[j].created_at}

\* select(TodoItem).order_by(desc(TodoItem.created_at)): every ordering of the
\* rows the backend may return; rows with equal created_at come in any order.
order_by_desc_created_at(rows) ==
    LET n == Cardinality(rows)
    IN {s \in [1..n -> rows] :
          /\ \A i, j \in 1..n : i # j => s[i] # s[j]
          /\ \A i, j \in 1..n : i < j => s[i].created_at >= s[j].created_at}

----------------------------------------------------------------------------
\* app/todo_service.py

\* update_todo testing `if update_data.completed:` for `is not None`.
apply_update_truthy(todo, update_data, now) ==
    [todo EXCEPT
        !.description = IF update_data.description # None
                        THEN update_data.description[1] ELSE @,
        !.completed = IF update_data.completed = Some(TRUE) THEN TRUE ELSE @,
        !.updated_at = Some(now)]

\* update_todo stamping updated_at only when the request carries a field.
apply_update_if_changed(todo, update_data, now) ==
    [todo EXCEPT
        !.description = IF update_data.description # None
                        THEN update_data.description[1] ELSE @,
        !.completed = IF update_data.completed # None
                      THEN update_data.completed[1] ELSE @,
        !.updated_at = IF update_data.description = None /\ update_data.completed = None
                       THEN @ ELSE Some(now)]

\* update_todo stamping created_at along with updated_at.
apply_update_recreated(todo, update_data, now) ==
    [todo EXCEPT
        !.description = IF update_data.description # None
                        THEN update_data.description[1] ELSE @,
        !.completed = IF update_data.completed # None
                      THEN update_data.completed[1] ELSE @,
        !.created_at = now,
        !.updated_at = Some(now)]

\* update_todo, lines 39-44: the fields present overwrite, updated_at is stamped.
apply_update(todo, update_data, now) ==
    [todo EXCEPT
        !.description = IF update_data.description # None
                        THEN update_data.description[1] ELSE @,
        !.completed = IF update_data.completed # None
                      THEN update_data.completed[1] ELSE @,
        !.updated_at = Some(now)]

\* toggle_todo_completion setting completed instead of negating it.
apply_toggle_set(todo, now) ==
    [todo EXCEPT !.completed = TRUE, !.updated_at = Some(now)]

\* toggle_todo_completion, lines 58-59.
apply_toggle(todo, now) ==
    [todo EXCEPT !.completed = ~@, !.updated_at = Some(now)]

\* round(x, 1) of the quotient n / d, in tenths: to the nearest tenth, an
\* exact half to the even one.
round_tenths(n, d) ==
    LET q == (10 * n) \div d
        r == (10 * n) % d
    IN IF 2 * r < d THEN q
       ELSE IF 2 * r > d THEN q + 1
       ELSE IF q % 2 = 0 THEN q ELSE q + 1

\* completion_rate cut to one decimal instead of rounded.
completion_rate_truncated(completed, total) ==
    IF total > 0 THEN (completed * 1000) \div total ELSE 0

\* get_todo_stats, line 89: round((completed / total * 100) if total > 0 else 0, 1)
completion_rate(completed, total) ==
    IF total > 0 THEN round_tenths(completed * 100, total) ELSE 0

\* get_todo_stats, lines 81-90, of the list get_all_todos() returned.
todo_stats(todos) ==
    LET total == Len(todos)
        completed == Cardinality({k \in 1..total : todos[k].completed})
        pending == total - completed
    IN [total |-> total, completed |-> completed, pending |-> pending,
        completion_rate |-> completion_rate(completed, total)]

create_todo(todo_data) ==
    /\ call = NoCall
    /\ Len(issued) < MaxCreates
    /\ LET todo == session_insert(TodoItem(todo_data.description, utcnow))
       IN /\ todo_items' = todo_items \cup {todo}
          /\ ret' = todo
          /\ issued' = Append(issued, todo.id)
    /\ next_id' = next_id + 1
    /\ call' = [op |-> "create_todo", id |-> 0, data |-> todo_data]
    /\ gone' = {}
    /\ UNCHANGED <<clock, mutated, last_toggle, sessions, commits>>

get_all_todos ==
    /\ call = NoCall
    /\ \E todos \in order_by_desc_created_at(todo_items) : ret' = todos
    /\ call' = [op |-> "get_all_todos", id |-> 0, data |-> None]
    /\ UNCHANGED <<todo_items, next_id, clock, issued, mutated, gone, last_toggle, sessions, commits>>

get_todo_by_id(todo_id) ==
    /\ call = NoCall
    /\ ret' = session_get(todo_id)
    /\ call' = [op |-> "get_todo_by_id", id |-> todo_id, data |-> None]
    /\ UNCHANGED <<todo_items, next_id, clock, issued, mutated, gone, last_toggle, sessions, commits>>

update_todo(todo_id, update_data) ==
    /\ call = NoCall
    /\ LET todo == session_get(todo_id)
       IN IF todo = None
          THEN /\ ret' = None
               /\ UNCHANGED <<todo_items, mutated, last_toggle>>
          ELSE LET new == apply_update(todo[1], update_data, utcnow)
               IN /\ todo_items' = session_update(todo[1], new)
                  /\ ret' = Some(new)
                  /\ mutated' = mutated \cup {todo_id}
                  /\ last_toggle' = IF last_toggle # None /\ last_toggle[1].id = todo_id
                                    THEN None ELSE last_toggle
    /\ call' = [op |-> "update_todo", id |-> todo_id, data |-> update_data]
    /\ UNCHANGED <<next_id, clock, issued, gone, sessions, commits>>

toggle_todo_completion(todo_id) ==
    /\ call = NoCall
    /\ LET todo == session_get(todo_id)
       IN IF todo = None
          THEN /\ ret' = None
               /\ UNCHANGED <<todo_items, mutated, last_toggle>>
          ELSE LET new == apply_toggle(todo[1], utcnow)
               IN /\ todo_items' = session_update(todo[1], new)
                  /\ ret' = Some(new)
                  /\ mutated' = mutated \cup {todo_id}
                  /\ last_toggle' =
                        Some([id |-> todo_id,
                              before |-> todo[1].completed,
                              stamp |-> new.updated_at,
                              earlier |-> IF last_toggle # None
                                             /\ last_toggle[1].id = todo_id
                                          THEN last_toggle[1].stamp ELSE None])
    /\ call' = [op |-> "toggle_todo_completion", id |-> todo_id, data |-> None]
    /\ UNCHANGED <<next_id, clock, issued, gone, sessions, commits>>

delete_todo(todo_id) ==
    /\ call = NoCall
    /\ LET todo == session_get(todo_id)
       IN IF todo = None
          THEN /\ ret' = FALSE
               /\ UNCHANGED <<todo_items, mutated, gone, last_toggle>>
          ELSE /\ todo_items' = session_delete(todo[1])
               /\ ret' = TRUE
               /\ mutated' = mutated \ {todo_id}
               /\ gone' = gone \cup {todo_id}
               /\ last_toggle' = IF last_toggle # None /\ last_toggle[1].id = todo_id
                                 THEN None ELSE last_toggle
    /\ call' = [op |-> "delete_todo", id |-> todo_id, data |-> None]
    /\ UNCHANGED <<next_id, clock, issued, sessions, commits>>

get_todo_stats ==
    /\ call = NoCall
    /\ \E todos \in order_by_desc_created_at(todo_items) : ret' = todo_stats(todos)
    /\ call' = [op |-> "get_todo_stats", id |-> 0, data |-> None]
    /\ UNCHANGED <<todo_items, next_id, clock, issued, mutated, gone, last_toggle, sessions, commits>>

----------------------------------------------------------------------------
\* The callers and the environment.

\* The caller has the result in hand; the service keeps nothing of the call.
ReturnToCaller ==
    /\ call # NoCall
    /\ call' = NoCall
    /\ ret' = None
    /\ UNCHANGED <<todo_items, next_id, clock, issued, mutated, gone, last_toggle, sessions, commits>>

\* Time passes between two calls.
Tick ==
    /\ call = NoCall
    /\ clock < MaxTime
    /\ clock' = clock + 1
    /\ UNCHANGED <<todo_items, next_id, call, ret, issued, mutated, gone, last_toggle, sessions, commits>>

\* A session that starts on the empty table.
Init ==
    /\ todo_items = {}
    /\ next_id = 1
    /\ clock = 0
    /\ call = NoCall
    /\ ret = None
    /\ issued = <<>>
    /\ mutated = {}
    /\ gone = {}
    /\ last_toggle = None
    /\ sessions = NoSessions
    /\ commits = <<>>

Next ==
    \/ Tick
    \/ ReturnToCaller
    \/ \E d \in Descriptions : create_todo(TodoItemCreate(d))
    \/ get_all_todos
    \/ \E i \in Ids : get_todo_by_id(i)
    \/ \E i \in Ids, u \in UpdateRequests : update_todo(i, u)
    \/ \E i \in Ids : toggle_todo_completion(i)
    \/ \E i \in Ids : delete_todo(i)
    \/ get_todo_stats

Spec == Init /\ [][Next]_vars

----------------------------------------------------------------------------
\* A session that starts on a table some earlier session left: up to MaxRows
\* items were created, in the order of their ids and at clock readings that
\* did not decrease, and any of them were deleted since.  No read depends on
\* a description, so all of them are "a".

InitRead ==
    /\ clock = MaxStamp
    /\ call = NoCall
    /\ ret = None
    /\ mutated = {}
    /\ gone = {}
    /\ last_toggle = None
    /\ sessions = NoSessions
    /\ commits = <<>>
    /\ \E n \in 0..MaxRows :
          /\ next_id = n + 1
          /\ issued = [k \in 1..n |-> Some(k)]
          /\ \E created \in [1..n -> 0..MaxStamp], alive \in SUBSET (1..n) :
                /\ \A i, j \in 1..n : i < j => created[i] <= created[j]
                /\ todo_items =
                      {[TodoItem("a", created[i]) EXCEPT !.id = Some(i)] : i \in alive}

NextRead ==
    \/ ReturnToCaller
    \/ get_all_todos
    \/ get_todo_stats
    \/ \E i \in 1..MaxRows : toggle_todo_completion(i)

SpecRead == InitRead /\ [][NextRead]_vars

----------------------------------------------------------------------------
\* Callers at once: each caller makes one call of update_todo or of
\* toggle_todo_completion, in its own session, and the steps of the calls
\* interleave.  A call is at "loaded" after session.get, at "changed" after
\* its assignments, at "committed" after session.commit and at "done" when
\* it has returned.

Session(op, todo_id, data, pc, loaded, todo, result) ==
    [op |-> op, id |-> todo_id, data |-> data, pc |-> pc,
     loaded |-> loaded, todo |-> todo, ret |-> result]

\* The call has returned result: its session is closed, the caller keeps the
\* result and the service nothing of the call.
Returned(result) == Session("none", 0, None, "done", None, None, result)

At(c, pc) == sessions[c] # None /\ sessions[c][1].pc = pc

\* Lines 35-37 and 54-56: session.get(TodoItem, todo_id), None returned for a
\* missing id.  The callers are numbered in the order their calls start.
call_get(c, op, todo_id, data) ==
    /\ sessions[c] = None
    /\ \A d \in Callers : d < c => sessions[d] # None
    /\ LET todo == session_get(todo_id)
       IN sessions' = [sessions EXCEPT ![c] =
             IF todo = None
             THEN Some(Returned(None))
             ELSE Some(Session(op, todo_id, data, "loaded", todo, todo, None))]
    /\ UNCHANGED <<todo_items, next_id, clock, call, ret, issued, mutated, gone,
                   last_toggle, commits>>

\* Lines 39-44 and 58-59: the assignments to the loaded object.
call_change(c) ==
    /\ At(c, "loaded")
    /\ LET s == sessions[c][1]
           new == IF s.op = "update_todo"
                  THEN apply_update(s.todo[1], s.data[1], utcnow)
                  ELSE apply_toggle(s.todo[1], utcnow)
       IN sessions' = [sessions EXCEPT ![c] =
             Some([s EXCEPT !.pc = "changed", !.todo = Some(new)])]
    /\ UNCHANGED <<todo_items, next_id, clock, call, ret, issued, mutated, gone,
                   last_toggle, commits>>

\* Lines 45-46 and 60-61: session.add(todo); session.commit()
call_commit(c) ==
    /\ At(c, "changed")
    /\ LET s == sessions[c][1]
           row == session_get(s.id)[1]
       IN /\ todo_items' =
                session_update(row, session_flush(row, s.loaded[1], s.todo[1]))
          /\ commits' = Append(commits, [caller |-> c, op |-> s.op, data |-> s.data,
                                         loaded |-> s.loaded[1], todo |-> s.todo[1]])
          /\ mutated' = mutated \cup {s.id}
          /\ sessions' = [sessions EXCEPT ![c] = Some([s EXCEPT !.pc = "committed"])]
    /\ UNCHANGED <<next_id, clock, call, ret, issued, gone, last_toggle>>

\* Lines 47-48 and 62-63: session.refresh(todo); return todo
call_refresh(c) ==
    /\ At(c, "committed")
    /\ LET s == sessions[c][1]
           row == session_get(s.id)
       IN sessions' = [sessions EXCEPT ![c] = Some(Returned(row))]
    /\ UNCHANGED <<todo_items, next_id, clock, call, ret, issued, mutated, gone,
                   last_toggle, commits>>

\* The requests of the racing update_todo calls: each sets one field.
RaceRequests ==
    {u \in UpdateRequests : (u.description = None) # (u.completed = None)}

\* One item is stored, as an earlier session created it and perhaps touched
\* it since.  The calls are short: the clock advances at most once while
\* they last.
InitRace ==
    /\ clock = MaxTime - 1
    /\ call = NoCall
    /\ ret = None
    /\ next_id = 2
    /\ issued = <<Some(1)>>
    /\ gone = {}
    /\ last_toggle = None
    /\ sessions = NoSessions
    /\ commits = <<>>
    /\ \E stamp \in {None, Some(clock)} :
          /\ todo_items = {[TodoItem("c", 0) EXCEPT !.id = Some(1),
                                                   !.updated_at = stamp]}
          /\ mutated = IF stamp = None THEN {} ELSE {1}

NextRace ==
    \/ Tick
    \/ \E c \in Callers, i \in 1..next_id :
          call_get(c, "toggle_todo_completion", i, None)
    \/ \E c \in Callers, i \in 1..next_id, u \in RaceRequests :
          call_get(c, "update_todo", i, Some(u))
    \/ \E c \in Callers : call_change(c)
    \/ \E c \in Callers : call_commit(c)
    \/ \E c \in Callers : call_refresh(c)

SpecRace == InitRace /\ [][NextRace]_vars

----------------------------------------------------------------------------
\* What the properties below read off the state.

\* A step in which the service runs the call named op.
Runs(op) == call = NoCall /\ call'.op = op

Stored(i) == \E r \in todo_items : r.id = Some(i)
RowOf(i) == CHOOSE r \in todo_items : r.id = Some(i)

\* The place of an id in the order of the create_todo calls.
Rank(id) == CHOOSE k \in 1..Len(issued) : issued[k] = id

----------------------------------------------------------------------------
\* C1: create_todo adds exactly one row to the table and returns it, with the
\* description of the request, completed false, an id, created_at set to the
\* clock reading of the call and no updated_at.
C1_CreateAddsOneFreshItem ==
    [][Runs("create_todo") =>
        /\ todo_items \subseteq todo_items'
        /\ Cardinality(todo_items') = Cardinality(todo_items) + 1
        /\ todo_items' \ todo_items = {ret'}
        /\ ret'.description = call'.data.description
        /\ ret'.completed = FALSE
        /\ ret'.id # None
        /\ ret'.created_at = clock
        /\ ret'.updated_at = None]_vars

\* A second item has been created, with the other description, next to a first.
C1_Witness ==
    /\ call.op = "create_todo"
    /\ call.data.description = "b"
    /\ ret.description = "b"
    /\ Cardinality(todo_items) = 2

\* C2: on an id that is not stored, get_todo_by_id, update_todo and
\* toggle_todo_completion return None, delete_todo returns false, and the
\* table is left as it was.
C2_MissingIdLeavesStoreAlone ==
    [][(/\ call = NoCall
        /\ call'.op \in {"get_todo_by_id", "update_todo",
                         "toggle_todo_completion", "delete_todo"}
        /\ ~Stored(call'.id)) =>
        /\ todo_items' = todo_items
        /\ ret' = IF call'.op = "delete_todo" THEN FALSE ELSE None]_vars

\* An update carrying both fields was refused on a missing id while another
\* item was stored.
C2_Witness ==
    /\ call.op = "update_todo"
    /\ call.data = TodoItemUpdate(Some("b"), Some(TRUE))
    /\ ret = None
    /\ todo_items # {}
    /\ ~Stored(call.id)

\* C3: update_todo on a stored id overwrites exactly the fields the request
\* carries, stamps updated_at with the clock reading of the call whatever the
\* request holds, leaves every other row alone and returns the row as stored.
C3_UpdateOverwritesPresentFields ==
    [][(Runs("update_todo") /\ Stored(call'.id)) =>
        LET old == RowOf(call'.id)
            u == call'.data
        IN /\ ret' # None
           /\ ret'[1].description =
                 IF u.description = None THEN old.description ELSE u.description[1]
           /\ ret'[1].completed =
                 IF u.completed = None THEN old.completed ELSE u.completed[1]
           /\ ret'[1].updated_at = Some(clock)
           /\ ret'[1].id = old.id
           /\ ret'[1].created_at = old.created_at
           /\ todo_items' = (todo_items \ {old}) \cup {ret'[1]}]_vars

\* A request carrying only completed = false was applied to a completed item
\* described "b".
C3_Witness ==
    /\ call.op = "update_todo"
    /\ call.data = TodoItemUpdate(None, Some(FALSE))
    /\ ret # None
    /\ ret[1].description = "b"
    /\ ret[1].completed = FALSE
    /\ \E r \in todo_items : r # ret[1]

\* C4 as amended: toggle_todo_completion negates completed, so the second of
\* two toggles of an id with no update or delete of it in between returns
\* completed to the value before the first; the first sets updated_at and the
\* second sets it again, each to the clock reading of its own call.
C4_ToggleTwiceRestoresCompleted ==
    [][(Runs("toggle_todo_completion") /\ Stored(call'.id)) =>
        /\ ret' # None
        /\ ret'[1].completed = ~RowOf(call'.id).completed
        /\ ret'[1].updated_at = Some(clock)
        /\ (last_toggle # None /\ last_toggle[1].id = call'.id) =>
              /\ ret'[1].completed = last_toggle[1].before
              /\ last_toggle[1].stamp # None
              /\ RowOf(call'.id).updated_at = last_toggle[1].stamp]_vars

\* The second toggle ran at a later clock reading than the first.
C4_Witness ==
    /\ call.op = "toggle_todo_completion"
    /\ ret # None
    /\ last_toggle # None
    /\ last_toggle[1].id = call.id
    /\ last_toggle[1].earlier # None
    /\ last_toggle[1].stamp[1] > last_toggle[1].earlier[1]
    /\ ret[1].completed = FALSE

\* C4 as claimed: on the second of two such toggles updated_at advances.
C4_UpdatedAtAdvances ==
    [][(/\ Runs("toggle_todo_completion")
        /\ Stored(call'.id)
        /\ last_toggle # None
        /\ last_toggle[1].id = call'.id) =>
        /\ ret'[1].completed = last_toggle[1].before
        /\ ret'[1].updated_at[1] > last_toggle[1].stamp[1]]_vars

\* C5: a stored item has no updated_at exactly when no update_todo and no
\* toggle_todo_completion has succeeded on it.
C5_UpdatedAtAbsentIffNeverMutated ==
    \A r \in todo_items : (r.updated_at = None) <=> (r.id[1] \notin mutated)

\* One stored item was updated by a request carrying no field, another never.
C5_Witness ==
    /\ call.op = "update_todo"
    /\ call.data = TodoItemUpdate(None, None)
    /\ ret # None
    /\ \E r \in todo_items : r.updated_at = None
    /\ \E r \in todo_items : r.updated_at # None

\* C6: while no item is created, an id whose delete_todo returned true stays
\* out of the table: get, update and toggle on it return None, delete returns
\* false and get_all_todos does not list it.
C6_DeletionIsFinal ==
    [][(call = NoCall /\ call' # NoCall /\ call'.op # "create_todo") =>
        \A i \in gone :
           /\ \A r \in todo_items' : r.id # Some(i)
           /\ (call'.id = i /\ call'.op \in {"get_todo_by_id", "update_todo",
                                             "toggle_todo_completion"})
                 => ret' = None
           /\ (call'.id = i /\ call'.op = "delete_todo") => ret' = FALSE
           /\ call'.op = "get_all_todos"
                 => \A k \in DOMAIN ret' : ret'[k].id # Some(i)]_vars

\* A second delete_todo of a deleted id returned false while another item
\* was stored.
C6_Witness ==
    /\ call.op = "delete_todo"
    /\ call.id \in gone
    /\ ret = FALSE
    /\ todo_items # {}

\* C7: no two create_todo calls return the same id.
C7_IdsNeverReused ==
    \A k, l \in 1..Len(issued) : k # l => issued[k] # issued[l]

\* A second item was created after the first had been deleted.
C7_Witness ==
    /\ call.op = "create_todo"
    /\ Len(issued) = 2
    /\ todo_items = {ret}

\* C8: no step changes the id or the created_at of a stored item: an update
\* or a toggle leaves the pairs of id and created_at in the table as they
\* were, and every other step leaves those of the items it keeps.
C8_IdAndCreatedAtNeverChange ==
    [][/\ \A r \in todo_items, r2 \in todo_items' :
             r2.id = r.id => r2.created_at = r.created_at
       /\ call'.op \in {"update_todo", "toggle_todo_completion"} =>
             {<<r.id, r.created_at>> : r \in todo_items'}
                = {<<r.id, r.created_at>> : r \in todo_items}]_vars

\* An item created at clock reading 0 was updated at reading 1.
C8_Witness ==
    /\ call.op = "update_todo"
    /\ ret # None
    /\ ret[1].created_at = 0
    /\ ret[1].updated_at = Some(1)
    /\ ret[1] \in todo_items

\* C9: get_todo_stats returns the number of stored items, the number of them
\* completed, their difference and the rate completed / total * 100 to the
\* nearest tenth, 0 on the empty table and 66.7 for two of three; it changes
\* no item.
C9_StatsCountTheStore ==
    [][Runs("get_todo_stats") =>
        LET total == Cardinality(todo_items)
            completed == Cardinality({r \in todo_items : r.completed})
            rate == ret'.completion_rate
        IN /\ ret'.total = total
           /\ ret'.completed = completed
           /\ ret'.pending = total - completed
           /\ total = 0 => rate = 0
           /\ total > 0 => /\ 2 * (rate * total - 1000 * completed) <= total
                           /\ 2 * (1000 * completed - rate * total) <= total
           /\ (total = 3 /\ completed = 2) => rate = 667
           /\ todo_items' = todo_items]_vars

\* The statistics of three items, two of them completed.
C9_Witness ==
    /\ call.op = "get_todo_stats"
    /\ ret = [total |-> 3, completed |-> 2, pending |-> 1, completion_rate |-> 667]

\* C10 as amended: get_all_todos returns every stored item exactly once, by
\* created_at descending, so items whose created_at grow in the order of
\* their creation come newest first (A, B, C as [C, B, A]) while items with
\* the same created_at come in either order; the empty table gives the empty
\* sequence; an update or a toggle changes no created_at, and so not the order.
C10_ListIsNewestFirst ==
    [][/\ Runs("get_all_todos") =>
             /\ Len(ret') = Cardinality(todo_items)
             /\ {ret'[k] : k \in DOMAIN ret'} = todo_items
             /\ \A k, l \in DOMAIN ret' :
                   k < l => ret'[k].created_at >= ret'[l].created_at
             /\ (\A r1, r2 \in todo_items :
                    Rank(r1.id) < Rank(r2.id) => r1.created_at < r2.created_at)
                   => \A k, l \in DOMAIN ret' :
                         k < l => Rank(ret'[k].id) > Rank(ret'[l].id)
             /\ todo_items = {} => ret' = <<>>
             /\ todo_items' = todo_items
       /\ Runs("toggle_todo_completion") =>
             {<<r.id, r.created_at>> : r \in todo_items'}
                = {<<r.id, r.created_at>> : r \in todo_items}
       /\ \A r \in todo_items, u \in UpdateRequests :
             /\ apply_update(r, u, clock).id = r.id
             /\ apply_update(r, u, clock).created_at = r.created_at]_vars

\* Three items created at three clock readings, the middle one updated
\* since, are listed newest first.
C10_Witness ==
    /\ call.op = "get_all_todos"
    /\ Len(ret) = 3
    /\ ret[1].id = Some(3) /\ ret[2].id = Some(2) /\ ret[3].id = Some(1)
    /\ ret[1].created_at > ret[2].created_at
    /\ ret[2].created_at > ret[3].created_at
    /\ ret[2].updated_at # None

\* C10 as claimed: whatever their created_at, the items are listed in the
\* reverse of the order of their creation.
C10_ReverseCreationOrder ==
    [][Runs("get_all_todos") =>
        \A k, l \in DOMAIN ret' :
           k < l => Rank(ret'[k].id) > Rank(ret'[l].id)]_vars

----------------------------------------------------------------------------
\* What the properties of the interleaved calls read off the history.

Raced == {"completed", "description", "updated_at"}

\* The k-th commit belongs to a call whose code assigns the field f.
Assigns(k, f) ==
    \/ f = "updated_at"
    \/ f = "completed" /\ commits[k].op = "toggle_todo_completion"
    \/ commits[k].op = "update_todo" /\ f \in {"completed", "description"}
          /\ commits[k].data[1][f] # None

\* The k-th commit belongs to a call that gave f another value than it read.
Changes(k, f) == commits[k].todo[f] # commits[k].loaded[f]

\* Every call that committed had read the item before the first commit.
AllReadFirst == \A k \in DOMAIN commits : commits[k].loaded = commits[1].loaded

\* The value of f that the last commit to change f wrote; the value the item
\* had before the calls if none changed it.
LastChanged(f) ==
    LET K == {k \in DOMAIN commits : Changes(k, f)}
    IN IF K = {} THEN commits[1].loaded[f]
       ELSE commits[CHOOSE k \in K : \A l \in K : l <= k].todo[f]

\* C11: update_todo and toggle_todo_completion read the item, change their
\* copy and commit, and the calls of several callers interleave.  Each field
\* of the stored item then holds what the last commit that changed that field
\* wrote, whatever was read and committed around it; in particular, toggles
\* that all read the item before any of them committed leave completed
\* flipped once, however many they are.
C11_LastChangingCommitWins ==
    Len(commits) > 0 =>
        /\ Stored(1)
        /\ \A f \in DOMAIN RowOf(1) : RowOf(1)[f] = LastChanged(f)
        /\ (AllReadFirst /\ \A k \in DOMAIN commits :
                                commits[k].op = "toggle_todo_completion")
              => RowOf(1).completed = ~commits[1].loaded.completed

\* Two callers toggled the same item, both read it before either committed,
\* both returned, and completed is flipped once.
C11_Witness ==
    /\ Len(commits) = 2
    /\ commits[1].caller # commits[2].caller
    /\ commits[1].op = "toggle_todo_completion"
    /\ commits[2].op = "toggle_todo_completion"
    /\ AllReadFirst
    /\ \A c \in {commits[1].caller, commits[2].caller} : sessions[c][1].pc = "done"
    /\ RowOf(1).completed = ~commits[1].loaded.completed

\* C11 as claimed: when the calls all read before any of them committed, the
\* fields the last committer assigned hold the last committer's values.
C11_LastCommitterWins ==
    (Len(commits) >= 2 /\ AllReadFirst) =>
        \A f \in Raced :
           Assigns(Len(commits), f)
              => RowOf(1)[f] = commits[Len(commits)].todo[f]

====
